---- MODULE Spec2Model ----
(***************************************************************************)
(* Familiada game session: Game / Round / Team / QuestionStore.            *)
(*                                                                         *)
(* The game object is modelled as a record g with the fields of Game,      *)
(* Round, Team and QuestionStore.  Every method is an operator from the    *)
(* record before the call to the record after it; the keyboard handlers    *)
(* are the actions, which apply one Game method to the current state.      *)
(* The presentation layer (DOM) is reduced to the winner banner, the only  *)
(* part of it that finishGame writes and that undo restores.               *)
(***************************************************************************)
EXTENDS Integers, Sequences, FiniteSets, TLC

VARIABLES teams, currentQuestionIndex, roundCount, pendingNextRound,
          undoStack, round, currentTeam, winner,
          scoreOverlayVisible,  \* the score overlay is shown
          listening,  \* the recognitions started and not yet ended, each
                      \* with the game as it was at its start (the game at
                      \* the start is history, not part of the program)
          hist  \* history variable: the game before each call that pushed
                \* a snapshot still on the stack (not part of the program)

vars == <<teams, currentQuestionIndex, roundCount, pendingNextRound,
          undoStack, round, currentTeam, winner, scoreOverlayVisible,
          listening, hist>>

----------------------------------------------------------------------------
(* Bounds of the model *)

\* Forward operations are explored while the undo stack holds fewer snapshots.
MaxUndo == 4
\* The same, for the runs that start at the beginning of a later round.
MidUndo == 3
\* Rounds at whose start the mid-game runs begin: 1..MaxRound.
MaxRound == 5
\* The same bound as MaxUndo, for the runs in which the overlay is toggled.
KeysUndo == 3
\* The same bound, for the runs in which a recognition is left running.
SpeechUndo == 3
\* Sizes of the question stores of the cursor check: 1..MaxStore.
MaxStore == 3
\* Calls of getNextQuestion on one store in the cursor check: 1..MaxCalls.
MaxCalls == 7

----------------------------------------------------------------------------
(* Program constants *)

WinThreshold == 400
StealErrors == 3
DoubleRound == 4
TripleRound == 5

DEFAULT == "default"
STOLEN == "stolen"

BLUE == "blue"
RED == "red"
\* game.setCurrentTeam('') : no team selected
NoTeam == ""

\* new Game([new Team(BLUE), new Team(RED)], ...): the order of this.teams
TeamOrder == <<BLUE, RED>>
TeamNames == {BLUE, RED}

----------------------------------------------------------------------------
(* Text: a string is a sequence of one-character strings *)

\* String.prototype.toLowerCase on the characters used
LowerChar(c) ==
  CASE c = "K" -> "k"
    [] c = "L" -> "l"
    [] c = "L~" -> "l~"
    [] OTHER -> c

\* One character through removeDiacritics: l-stroke is replaced by l, NFKD
\* splits an accented letter into the letter and a combining mark, and the
\* final replace deletes what is neither \w, \s nor in the range '.'..'_'
\* (the combining marks, the capital L-stroke, which has no decomposition,
\* and the hyphen).  "l~" is l-stroke, "L~" its capital, "o'" is o-acute,
\* "s'" is s-acute.
FoldChar(c) ==
  CASE c = "l~" -> <<"l">>
    [] c = "L~" -> <<>>
    [] c = "o'" -> <<"o">>
    [] c = "s'" -> <<"s">>
    [] c = "-" -> <<>>
    [] OTHER -> <<c>>

RECURSIVE toLowerCase(_)
toLowerCase(s) ==
  IF s = <<>> THEN <<>> ELSE <<LowerChar(Head(s))>> \o toLowerCase(Tail(s))

RECURSIVE removeDiacritics(_)
removeDiacritics(s) ==
  IF s = <<>> THEN <<>> ELSE FoldChar(Head(s)) \o removeDiacritics(Tail(s))

----------------------------------------------------------------------------
(* The dataset: questions/data.json, random = false *)

Answer(ans, lp, points) == [ans |-> ans, lp |-> lp, points |-> points]

Kot == <<"k", "o", "t">>
Los == <<"l~", "o", "s'">>

\* questions in store order; a question is the sequence of its answers
Questions ==
  << <<Answer(Kot, 1, 40), Answer(Los, 2, 30)>>,
     <<Answer(<<"L", "o", "s">>, 1, 100)>> >>

NumQuestions == Len(Questions)

\* this.questions[i], i counted from 0
getAnswers(q) == Questions[q + 1]

\* transcripts and typed guesses handed to handlePlayerAnswer
Guesses ==
  { Kot, <<"K", "o", "t">>, <<"k", "o'", "t">>, Los, <<"l", "o", "s">>,
    <<"p", "i", "e", "s">> }

\* keys 1..9 of the keydown handler, cut to the ranks in use plus one absent
RankKeys == 1..3

----------------------------------------------------------------------------
(* Team *)

NewTeam == [points |-> 0, errors |-> 0]

Max0(n) == IF n < 0 THEN 0 ELSE n

addPoints(g, name, points) ==
  [g EXCEPT !.teams[name].points = @ + points]

setPoints(g, name, points) ==
  [g EXCEPT !.teams[name].points = Max0(points)]

addError(g, name) ==
  [g EXCEPT !.teams[name].errors = @ + 1]

setErrors(g, name, errorCnt) ==
  [g EXCEPT !.teams[name].errors = Max0(errorCnt)]

resetTeamsErrors(g) ==
  [g EXCEPT !.teams = [n \in TeamNames |-> [@[n] EXCEPT !.errors = 0]]]

----------------------------------------------------------------------------
(* QuestionStore *)

\* getQuestion / getNextQuestion: the question at the cursor, cursor advanced
getQuestion(g) == g.currentQuestionIndex

\* mutant: the cursor stops at the last question
nextIndexNoWrap(n, index) == IF index + 1 < n THEN index + 1 ELSE index

\* (this.currentQuestionIndex + 1) % this.questions.length
nextIndex(n, index) == (index + 1) % n

AdvanceCursor(g) ==
  [g EXCEPT !.currentQuestionIndex = nextIndex(NumQuestions, @)]

\* ((index % length) + length) % length
normalizedIndex(n, index) == ((index % n) + n) % n

setCurrentQuestionIndex(g, index) ==
  [g EXCEPT !.currentQuestionIndex = normalizedIndex(NumQuestions, index)]

----------------------------------------------------------------------------
(* Round *)

NewRound(q) ==
  [right |-> 0, status |-> DEFAULT, points |-> 0, revealed |-> {},
   question |-> q]

checkFinish(g) == Len(getAnswers(g.round.question)) = g.round.right

\* mutant: the triple factor applied from round 5 on
multiplierFromRound5On(rc) ==
  IF rc = DoubleRound THEN 2 ELSE IF rc >= TripleRound THEN 3 ELSE 1

multiplier(rc) ==
  IF rc = DoubleRound THEN 2 ELSE IF rc = TripleRound THEN 3 ELSE 1

\* What an operation hands back besides the new state: its return value, the
\* team a round award was credited to, and the team board.finishGame was
\* called with (NoTeam when there was none).
Result(g, ret, credited, declared) ==
  [g |-> g, ret |-> ret, credited |-> credited, declared |-> declared]

Quiet(g) == Result(g, TRUE, NoTeam, NoTeam)

----------------------------------------------------------------------------
(* Game: active team *)

getCurrentTeam(g) ==
  IF g.currentTeam = NoTeam THEN NoTeam
  ELSE IF g.currentTeam \in TeamNames THEN g.currentTeam ELSE NoTeam

\* teams.find(team => team.getName() !== this.currentTeam)
OtherTeam(g) ==
  IF TeamOrder[1] # g.currentTeam THEN TeamOrder[1] ELSE TeamOrder[2]

\* mutant: the snapshot records no pending round
SnapshotNoPending(g) ==
  [roundCount |-> g.roundCount,
   pendingNextRound |-> FALSE,
   currentTeam |-> g.currentTeam,
   questionsStoreIndex |-> g.currentQuestionIndex,
   roundQuestion |-> g.round.question,
   roundStatus |-> g.round.status,
   roundPoints |-> g.round.points,
   roundRight |-> g.round.right,
   revealed |-> g.round.revealed,
   teamState |-> g.teams,
   board |-> [winner |-> g.winner]]

Snapshot(g) ==
  [roundCount |-> g.roundCount,
   pendingNextRound |-> g.pendingNextRound,
   currentTeam |-> g.currentTeam,
   questionsStoreIndex |-> g.currentQuestionIndex,
   roundQuestion |-> g.round.question,
   roundStatus |-> g.round.status,
   roundPoints |-> g.round.points,
   roundRight |-> g.round.right,
   revealed |-> g.round.revealed,
   teamState |-> g.teams,
   board |-> [winner |-> g.winner]]

pushUndoSnapshot(g) ==
  [g EXCEPT !.undoStack = Append(@, Snapshot(g))]

\* mutant: a team selection is never recorded for undo
setCurrentTeamNoPush(g, teamName, skipUndo) ==
  [g EXCEPT !.currentTeam = teamName]

setCurrentTeam(g, teamName, skipUndo) ==
  [(IF skipUndo THEN g ELSE pushUndoSnapshot(g)) EXCEPT
     !.currentTeam = teamName]

\* mutant: the internal switch records a snapshot of its own
switchCurrentTeamPushes(g) == setCurrentTeam(g, OtherTeam(g), FALSE)

switchCurrentTeam(g) == setCurrentTeam(g, OtherTeam(g), TRUE)

\* Math.round(Math.random()) is 0 or 1: rnd is that index
setRandomTeam(g, rnd) == setCurrentTeam(g, TeamOrder[rnd + 1], TRUE)

----------------------------------------------------------------------------
(* Round: reveals, errors, award *)

\* board.finishGame(teamName): the winner banner
finishGame(g, teamName) == [g EXCEPT !.winner = teamName]

\* mutant: the win threshold of the README (300) instead of 400
finishRoundAt300(g) ==
  LET awardedPoints == g.round.points * multiplier(g.roundCount)
      cur == getCurrentTeam(g)
      g1 == IF cur # NoTeam THEN addPoints(g, cur, awardedPoints) ELSE g
  IN  IF cur # NoTeam /\ g1.teams[cur].points >= 300
      THEN Result(finishGame(g1, cur), TRUE, cur, cur)
      ELSE Result([switchCurrentTeam(g1) EXCEPT !.pendingNextRound = TRUE],
                  TRUE, cur, NoTeam)

\* mutant: the turn stays with the credited team
finishRoundNoSwitch(g) ==
  LET awardedPoints == g.round.points * multiplier(g.roundCount)
      cur == getCurrentTeam(g)
      g1 == IF cur # NoTeam THEN addPoints(g, cur, awardedPoints) ELSE g
  IN  IF cur # NoTeam /\ g1.teams[cur].points >= WinThreshold
      THEN Result(finishGame(g1, cur), TRUE, cur, cur)
      ELSE Result([g1 EXCEPT !.pendingNextRound = TRUE], TRUE, cur, NoTeam)

finishRound(g) ==
  LET awardedPoints == g.round.points * multiplier(g.roundCount)
      cur == getCurrentTeam(g)
      g1 == IF cur # NoTeam THEN addPoints(g, cur, awardedPoints) ELSE g
  IN  IF cur # NoTeam /\ g1.teams[cur].points >= WinThreshold
      THEN Result(finishGame(g1, cur), TRUE, cur, cur)
      ELSE Result([switchCurrentTeam(g1) EXCEPT !.pendingNextRound = TRUE],
                  TRUE, cur, NoTeam)

\* mutant: no early return for a rank that is already revealed
setBoardAnswerCountsAgain(g, answer) ==
  LET g1 == [g EXCEPT !.round.revealed = @ \cup {answer.lp},
                      !.round.right = @ + 1,
                      !.round.points = @ + answer.points]
  IN  IF checkFinish(g1) \/ g1.round.status = STOLEN
      THEN finishRound(g1)
      ELSE Quiet(g1)

\* mutant: a reveal in a stolen round finishes it only when it is the last
setBoardAnswerNoSteal(g, answer) ==
  IF answer.lp \in g.round.revealed THEN Quiet(g)
  ELSE LET g1 == [g EXCEPT !.round.revealed = @ \cup {answer.lp},
                           !.round.right = @ + 1,
                           !.round.points = @ + answer.points]
       IN  IF checkFinish(g1) THEN finishRound(g1) ELSE Quiet(g1)

\* mutant: a stealing reveal awards the round without the answer's points
setBoardAnswerStealUnscored(g, answer) ==
  IF answer.lp \in g.round.revealed THEN Quiet(g)
  ELSE LET g0 == [g EXCEPT !.round.revealed = @ \cup {answer.lp},
                           !.round.right = @ + 1]
           g1 == [g0 EXCEPT !.round.points = @ + answer.points]
       IN  IF checkFinish(g1) THEN finishRound(g1)
           ELSE IF g1.round.status = STOLEN THEN finishRound(g0)
           ELSE Quiet(g1)

setBoardAnswer(g, answer) ==
  IF answer.lp \in g.round.revealed THEN Quiet(g)
  ELSE LET g1 == [g EXCEPT !.round.revealed = @ \cup {answer.lp},
                           !.round.right = @ + 1,
                           !.round.points = @ + answer.points]
       IN  IF checkFinish(g1) \/ g1.round.status = STOLEN
           THEN finishRound(g1)
           ELSE Quiet(g1)

\* mutant: a reveal with no team active adds to the round's points
revealAnswerOnlyScores(g, answer) ==
  IF answer.lp \in g.round.revealed THEN g
  ELSE [g EXCEPT !.round.revealed = @ \cup {answer.lp},
                 !.round.right = @ + 1,
                 !.round.points = @ + answer.points]

revealAnswerOnly(g, answer) ==
  IF answer.lp \in g.round.revealed THEN g
  ELSE [g EXCEPT !.round.revealed = @ \cup {answer.lp},
                 !.round.right = @ + 1]

\* mutant: the steal starts at the fourth error
setBoardErrorStealsLate(g, team) ==
  LET g1 == addError(g, team)
  IN  IF g1.round.status = STOLEN
      THEN LET g2 == switchCurrentTeam(g1)
               awardedPoints == g2.round.points * multiplier(g2.roundCount)
               cur == getCurrentTeam(g2)
               g3 == IF cur # NoTeam THEN addPoints(g2, cur, awardedPoints)
                     ELSE g2
           IN  IF cur # NoTeam /\ g3.teams[cur].points >= WinThreshold
               THEN Result(finishGame(g3, cur), TRUE, cur, cur)
               ELSE Result([switchCurrentTeam(g3) EXCEPT
                              !.pendingNextRound = TRUE],
                           TRUE, cur, NoTeam)
      ELSE IF g1.teams[team].errors = StealErrors + 1
           THEN Quiet([switchCurrentTeam(g1) EXCEPT !.round.status = STOLEN])
           ELSE Quiet(g1)

\* mutant: the error that resolves a steal reopens the round
setBoardErrorReopens(g, team) ==
  LET g1 == addError(g, team)
  IN  IF g1.round.status = STOLEN
      THEN LET g2 == switchCurrentTeam(g1)
               awardedPoints == g2.round.points * multiplier(g2.roundCount)
               cur == getCurrentTeam(g2)
               g3 == IF cur # NoTeam THEN addPoints(g2, cur, awardedPoints)
                     ELSE g2
           IN  IF cur # NoTeam /\ g3.teams[cur].points >= WinThreshold
               THEN Result(finishGame(g3, cur), TRUE, cur, cur)
               ELSE Result([switchCurrentTeam(g3) EXCEPT
                              !.pendingNextRound = TRUE,
                              !.round.status = DEFAULT],
                           TRUE, cur, NoTeam)
      ELSE IF g1.teams[team].errors = StealErrors
           THEN Quiet([switchCurrentTeam(g1) EXCEPT !.round.status = STOLEN])
           ELSE Quiet(g1)

\* mutant: the steal is credited without switching to the opponent first
setBoardErrorCreditsErring(g, team) ==
  LET g1 == addError(g, team)
  IN  IF g1.round.status = STOLEN
      THEN LET awardedPoints == g1.round.points * multiplier(g1.roundCount)
               cur == getCurrentTeam(g1)
               g3 == IF cur # NoTeam THEN addPoints(g1, cur, awardedPoints)
                     ELSE g1
           IN  IF cur # NoTeam /\ g3.teams[cur].points >= WinThreshold
               THEN Result(finishGame(g3, cur), TRUE, cur, cur)
               ELSE Result([switchCurrentTeam(g3) EXCEPT
                              !.pendingNextRound = TRUE],
                           TRUE, cur, NoTeam)
      ELSE IF g1.teams[team].errors = StealErrors
           THEN Quiet([switchCurrentTeam(g1) EXCEPT !.round.status = STOLEN])
           ELSE Quiet(g1)

\* mutant: no second switch after the steal is credited
setBoardErrorNoSwitchBack(g, team) ==
  LET g1 == addError(g, team)
  IN  IF g1.round.status = STOLEN
      THEN LET g2 == switchCurrentTeam(g1)
               awardedPoints == g2.round.points * multiplier(g2.roundCount)
               cur == getCurrentTeam(g2)
               g3 == IF cur # NoTeam THEN addPoints(g2, cur, awardedPoints)
                     ELSE g2
           IN  IF cur # NoTeam /\ g3.teams[cur].points >= WinThreshold
               THEN Result(finishGame(g3, cur), TRUE, cur, cur)
               ELSE Result([g3 EXCEPT !.pendingNextRound = TRUE],
                           TRUE, cur, NoTeam)
      ELSE IF g1.teams[team].errors = StealErrors
           THEN Quiet([switchCurrentTeam(g1) EXCEPT !.round.status = STOLEN])
           ELSE Quiet(g1)

setBoardError(g, team) ==
  LET g1 == addError(g, team)
  IN  IF g1.round.status = STOLEN
      THEN LET g2 == switchCurrentTeam(g1)
               awardedPoints == g2.round.points * multiplier(g2.roundCount)
               cur == getCurrentTeam(g2)
               g3 == IF cur # NoTeam THEN addPoints(g2, cur, awardedPoints)
                     ELSE g2
           IN  IF cur # NoTeam /\ g3.teams[cur].points >= WinThreshold
               THEN Result(finishGame(g3, cur), TRUE, cur, cur)
               ELSE Result([switchCurrentTeam(g3) EXCEPT
                              !.pendingNextRound = TRUE],
                           TRUE, cur, NoTeam)
      ELSE IF g1.teams[team].errors = StealErrors
           THEN Quiet([switchCurrentTeam(g1) EXCEPT !.round.status = STOLEN])
           ELSE Quiet(g1)

----------------------------------------------------------------------------
(* Game: operations *)

\* new Game(teams, questionsStore), rnd the random index of setRandomTeam
NewGame(rnd) ==
  LET g0 == [teams |-> [n \in TeamNames |-> NewTeam],
             currentQuestionIndex |-> 0,
             roundCount |-> 1,
             pendingNextRound |-> FALSE,
             undoStack |-> <<>>,
             round |-> NewRound(0),
             currentTeam |-> NoTeam,
             winner |-> NoTeam]
      g1 == [AdvanceCursor(g0) EXCEPT !.round = NewRound(getQuestion(g0))]
  IN  setRandomTeam(g1, rnd)

\* mutant: the teams' error counts survive the round start
startNewRoundKeepsErrors(g, rnd) ==
  LET g1 == pushUndoSnapshot(g)
      g2 == [g1 EXCEPT !.pendingNextRound = FALSE]
      g3 == [g2 EXCEPT !.roundCount = @ + 1]
      g4 == [AdvanceCursor(g3) EXCEPT !.round = NewRound(getQuestion(g3))]
  IN  setRandomTeam(g4, rnd)

\* board.clearBoard() blanks the answer rows and the error marks, which the
\* model does not keep; the winner banner is left as it is.
startNewRound(g, rnd) ==
  LET g1 == pushUndoSnapshot(g)
      g2 == resetTeamsErrors([g1 EXCEPT !.pendingNextRound = FALSE])
      g3 == [g2 EXCEPT !.roundCount = @ + 1]
      g4 == [AdvanceCursor(g3) EXCEPT !.round = NewRound(getQuestion(g3))]
  IN  setRandomTeam(g4, rnd)

\* mutant: the round is advanced whether or not one is pending
advanceToNextRoundUnguarded(g, rnd) == Quiet(startNewRound(g, rnd))

advanceToNextRound(g, rnd) ==
  IF ~g.pendingNextRound THEN Result(g, FALSE, NoTeam, NoTeam)
  ELSE Quiet(startNewRound(g, rnd))

\* getAnswers().find(a => a.lp === number): the set of the first such answer
FindByNumber(g, number) ==
  LET as == getAnswers(g.round.question)
      hits == {i \in 1..Len(as) : as[i].lp = number}
  IN  {as[i] : i \in {j \in hits : \A k \in hits : j <= k}}

\* mutant: the reveal-only path has no completion check
MarkIfFinishedNever(g) == g

\* mutant: the reveal-only path marks the round finished after any reveal
MarkIfFinishedAlways(g) == [g EXCEPT !.pendingNextRound = TRUE]

\* the completion check of the reveal-only path
MarkIfFinished(g) ==
  IF checkFinish(g) THEN [g EXCEPT !.pendingNextRound = TRUE] ELSE g

\* mutant: the snapshot is pushed before the rank is looked up
revealAnswerByNumberPushesFirst(g, number) ==
  LET found == FindByNumber(g, number)
      g1 == pushUndoSnapshot(g)
  IN  IF found = {} THEN Result(g1, FALSE, NoTeam, NoTeam)
      ELSE LET answer == CHOOSE a \in found : TRUE
           IN  IF getCurrentTeam(g1) = NoTeam
               THEN Quiet(MarkIfFinished(revealAnswerOnly(g1, answer)))
               ELSE setBoardAnswer(g1, answer)

revealAnswerByNumber(g, number) ==
  LET found == FindByNumber(g, number)
  IN  IF found = {} THEN Result(g, FALSE, NoTeam, NoTeam)
      ELSE LET answer == CHOOSE a \in found : TRUE
               g1 == pushUndoSnapshot(g)
           IN  IF getCurrentTeam(g1) = NoTeam
               THEN Quiet(MarkIfFinished(revealAnswerOnly(g1, answer)))
               ELSE setBoardAnswer(g1, answer)

\* getAnswers().find(a => a.ans.toLowerCase() === removeDiacritics(guess))
resolvePlayerAnswer(g, playerAnswer) ==
  LET as == getAnswers(g.round.question)
      hits == {i \in 1..Len(as) :
                 toLowerCase(as[i].ans) = removeDiacritics(playerAnswer)}
  IN  {as[i] : i \in {j \in hits : \A k \in hits : j <= k}}

\* mutant: a matching guess is only shown, whoever is active
handlePlayerAnswerRevealOnly(g, playerAnswer) ==
  LET g1 == pushUndoSnapshot(g)
      result == resolvePlayerAnswer(g1, playerAnswer)
      cur == getCurrentTeam(g1)
  IN  IF result # {}
      THEN Quiet(MarkIfFinished(
                   revealAnswerOnly(g1, CHOOSE a \in result : TRUE)))
      ELSE IF cur = NoTeam THEN Quiet(g1) ELSE setBoardError(g1, cur)

handlePlayerAnswer(g, playerAnswer) ==
  LET g1 == pushUndoSnapshot(g)
      result == resolvePlayerAnswer(g1, playerAnswer)
      cur == getCurrentTeam(g1)
  IN  IF cur = NoTeam
      THEN IF result # {}
           THEN Quiet(MarkIfFinished(
                        revealAnswerOnly(g1, CHOOSE a \in result : TRUE)))
           ELSE Quiet(g1)
      ELSE IF result # {}
           THEN setBoardAnswer(g1, CHOOSE a \in result : TRUE)
           ELSE setBoardError(g1, cur)

addErrorForSelectedTeam(g) ==
  LET cur == getCurrentTeam(g)
  IN  IF cur = NoTeam THEN Result(g, FALSE, NoTeam, NoTeam)
      ELSE setBoardError(pushUndoSnapshot(g), cur)

RestoreTeams(g, teamState) ==
  LET g1 == setErrors(setPoints(g, BLUE, teamState[BLUE].points),
                      BLUE, teamState[BLUE].errors)
  IN  setErrors(setPoints(g1, RED, teamState[RED].points),
                RED, teamState[RED].errors)

\* mutant: the round is restored on the question now on the board
undoKeepsQuestion(g) ==
  IF g.undoStack = <<>> THEN Result(g, FALSE, NoTeam, NoTeam)
  ELSE LET snapshot == g.undoStack[Len(g.undoStack)]
           g1 == [g EXCEPT !.undoStack = SubSeq(@, 1, Len(@) - 1),
                           !.roundCount = snapshot.roundCount,
                           !.pendingNextRound = snapshot.pendingNextRound]
           g2 == setCurrentQuestionIndex(g1, snapshot.questionsStoreIndex)
           g3 == RestoreTeams(g2, snapshot.teamState)
           g4 == [g3 EXCEPT !.round =
                    [NewRound(g.round.question) EXCEPT
                       !.status = snapshot.roundStatus,
                       !.points = snapshot.roundPoints,
                       !.right = snapshot.roundRight,
                       !.revealed = snapshot.revealed]]
           g5 == setCurrentTeam(g4, snapshot.currentTeam, TRUE)
       IN  Quiet([g5 EXCEPT !.winner = snapshot.board.winner])

\* mutant: the revealed ranks are left as they are on the board
undoKeepsRevealed(g) ==
  IF g.undoStack = <<>> THEN Result(g, FALSE, NoTeam, NoTeam)
  ELSE LET snapshot == g.undoStack[Len(g.undoStack)]
           g1 == [g EXCEPT !.undoStack = SubSeq(@, 1, Len(@) - 1),
                           !.roundCount = snapshot.roundCount,
                           !.pendingNextRound = snapshot.pendingNextRound]
           g2 == setCurrentQuestionIndex(g1, snapshot.questionsStoreIndex)
           g3 == RestoreTeams(g2, snapshot.teamState)
           g4 == [g3 EXCEPT !.round =
                    [NewRound(snapshot.roundQuestion) EXCEPT
                       !.status = snapshot.roundStatus,
                       !.points = snapshot.roundPoints,
                       !.right = snapshot.roundRight,
                       !.revealed = g.round.revealed]]
           g5 == setCurrentTeam(g4, snapshot.currentTeam, TRUE)
       IN  Quiet([g5 EXCEPT !.winner = snapshot.board.winner])

\* mutant: the cursor of the question store is not restored
undoKeepsCursor(g) ==
  IF g.undoStack = <<>> THEN Result(g, FALSE, NoTeam, NoTeam)
  ELSE LET snapshot == g.undoStack[Len(g.undoStack)]
           g1 == [g EXCEPT !.undoStack = SubSeq(@, 1, Len(@) - 1),
                           !.roundCount = snapshot.roundCount,
                           !.pendingNextRound = snapshot.pendingNextRound]
           g3 == RestoreTeams(g1, snapshot.teamState)
           g4 == [g3 EXCEPT !.round =
                    [NewRound(snapshot.roundQuestion) EXCEPT
                       !.status = snapshot.roundStatus,
                       !.points = snapshot.roundPoints,
                       !.right = snapshot.roundRight,
                       !.revealed = snapshot.revealed]]
           g5 == setCurrentTeam(g4, snapshot.currentTeam, TRUE)
       IN  Quiet([g5 EXCEPT !.winner = snapshot.board.winner])

\* mutant: an undo with nothing to undo deselects the team
undoEmptyDeselects(g) ==
  IF g.undoStack = <<>>
  THEN Result([g EXCEPT !.currentTeam = NoTeam], FALSE, NoTeam, NoTeam)
  ELSE LET snapshot == g.undoStack[Len(g.undoStack)]
           g1 == [g EXCEPT !.undoStack = SubSeq(@, 1, Len(@) - 1),
                           !.roundCount = snapshot.roundCount,
                           !.pendingNextRound = snapshot.pendingNextRound]
           g2 == setCurrentQuestionIndex(g1, snapshot.questionsStoreIndex)
           g3 == RestoreTeams(g2, snapshot.teamState)
           g4 == [g3 EXCEPT !.round =
                    [NewRound(snapshot.roundQuestion) EXCEPT
                       !.status = snapshot.roundStatus,
                       !.points = snapshot.roundPoints,
                       !.right = snapshot.roundRight,
                       !.revealed = snapshot.revealed]]
           g5 == setCurrentTeam(g4, snapshot.currentTeam, TRUE)
       IN  Quiet([g5 EXCEPT !.winner = snapshot.board.winner])

\* mutant: the teams' error counts are not restored
undoKeepsErrors(g) ==
  IF g.undoStack = <<>> THEN Result(g, FALSE, NoTeam, NoTeam)
  ELSE LET snapshot == g.undoStack[Len(g.undoStack)]
           g1 == [g EXCEPT !.undoStack = SubSeq(@, 1, Len(@) - 1),
                           !.roundCount = snapshot.roundCount,
                           !.pendingNextRound = snapshot.pendingNextRound]
           g2 == setCurrentQuestionIndex(g1, snapshot.questionsStoreIndex)
           g3 == setPoints(setPoints(g2, BLUE, snapshot.teamState[BLUE].points),
                           RED, snapshot.teamState[RED].points)
           g4 == [g3 EXCEPT !.round =
                    [NewRound(snapshot.roundQuestion) EXCEPT
                       !.status = snapshot.roundStatus,
                       !.points = snapshot.roundPoints,
                       !.right = snapshot.roundRight,
                       !.revealed = snapshot.revealed]]
           g5 == setCurrentTeam(g4, snapshot.currentTeam, TRUE)
       IN  Quiet([g5 EXCEPT !.winner = snapshot.board.winner])

undo(g) ==
  IF g.undoStack = <<>> THEN Result(g, FALSE, NoTeam, NoTeam)
  ELSE LET snapshot == g.undoStack[Len(g.undoStack)]
           g1 == [g EXCEPT !.undoStack = SubSeq(@, 1, Len(@) - 1),
                           !.roundCount = snapshot.roundCount,
                           !.pendingNextRound = snapshot.pendingNextRound]
           g2 == setCurrentQuestionIndex(g1, snapshot.questionsStoreIndex)
           g3 == RestoreTeams(g2, snapshot.teamState)
           g4 == [g3 EXCEPT !.round =
                    [NewRound(snapshot.roundQuestion) EXCEPT
                       !.status = snapshot.roundStatus,
                       !.points = snapshot.roundPoints,
                       !.right = snapshot.roundRight,
                       !.revealed = snapshot.revealed]]
           g5 == setCurrentTeam(g4, snapshot.currentTeam, TRUE)
       IN  Quiet([g5 EXCEPT !.winner = snapshot.board.winner])

----------------------------------------------------------------------------
(* The page: the record button and the keyboard *)

\* how a started recognition ends: onresult with a transcript, or a rejection
\* of the promise by onnomatch or onerror
Recognized(text) == [ok |-> TRUE, transcript |-> text]
RecognitionFailures ==
  {[ok |-> FALSE, reason |-> "nomatch"], [ok |-> FALSE, reason |-> "error"]}
Recognitions == {Recognized(text) : text \in Guesses} \cup RecognitionFailures

\* record.onclick: the game after the click, and whether the promise of
\* speech.start() was rejected with no handler for the rejection
recordOnclick(g, supported, outcome) ==
  IF ~supported THEN [g |-> g, unhandled |-> FALSE]
  ELSE IF outcome.ok
       THEN [g |-> handlePlayerAnswer(g, outcome.transcript).g,
             unhandled |-> FALSE]
       ELSE [g |-> g, unhandled |-> TRUE]

\* the key presses of the keydown handler that reach the game or the overlay
KeyPresses ==
  {[key |-> c] : c \in {"s", "z", "e", "x", "m", "q", "w"}}
  \cup {[key |-> "r", supported |-> b, outcome |-> o] :
          b \in BOOLEAN, o \in Recognitions}
  \cup {[key |-> "p", rnd |-> rnd] : rnd \in {0, 1}}
  \cup {[key |-> "digit", number |-> n] : n \in RankKeys}

\* the game after the gameplay key k
gameKey(g, k) ==
  CASE k.key = "r" -> recordOnclick(g, k.supported, k.outcome).g
    [] k.key = "e" -> setCurrentTeam(g, NoTeam, FALSE)
    [] k.key = "x" -> addErrorForSelectedTeam(g).g
    [] k.key = "q" -> setCurrentTeam(g, BLUE, FALSE)
    [] k.key = "w" -> setCurrentTeam(g, RED, FALSE)
    [] k.key = "p" -> advanceToNextRound(g, k.rnd).g
    [] k.key = "digit" -> revealAnswerByNumber(g, k.number).g
    [] OTHER -> g

\* mutant: the overlay does not block the gameplay keys
keydownNoBlock(g, visible, k) ==
  IF k.key = "s" THEN [g |-> g, visible |-> ~visible]
  ELSE IF k.key = "z" THEN [g |-> undo(g).g, visible |-> visible]
  ELSE [g |-> gameKey(g, k), visible |-> visible]

\* the keydown handler once the intro is hidden: the game and the overlay
\* after key press k
keydown(g, visible, k) ==
  IF k.key = "s" THEN [g |-> g, visible |-> ~visible]
  ELSE IF k.key = "z" THEN [g |-> undo(g).g, visible |-> visible]
  ELSE IF visible THEN [g |-> g, visible |-> visible]
  ELSE [g |-> gameKey(g, k), visible |-> visible]

----------------------------------------------------------------------------
(* The state machine *)

\* the game object as one record
G ==
  [teams |-> teams,
   currentQuestionIndex |-> currentQuestionIndex,
   roundCount |-> roundCount,
   pendingNextRound |-> pendingNextRound,
   undoStack |-> undoStack,
   round |-> round,
   currentTeam |-> currentTeam,
   winner |-> winner]

\* the game object in the next state
GNext ==
  [teams |-> teams',
   currentQuestionIndex |-> currentQuestionIndex',
   roundCount |-> roundCount',
   pendingNextRound |-> pendingNextRound',
   undoStack |-> undoStack',
   round |-> round',
   currentTeam |-> currentTeam',
   winner |-> winner']

\* the game object without its undo stack
View(g) == [f \in (DOMAIN g) \ {"undoStack"} |-> g[f]]

Starts(g) ==
  /\ hist = <<>>
  /\ scoreOverlayVisible = FALSE
  /\ listening = <<>>
  /\ teams = g.teams
  /\ currentQuestionIndex = g.currentQuestionIndex
  /\ roundCount = g.roundCount
  /\ pendingNextRound = g.pendingNextRound
  /\ undoStack = g.undoStack
  /\ round = g.round
  /\ currentTeam = g.currentTeam
  /\ winner = g.winner

Becomes(g) ==
  /\ teams' = g.teams
  /\ currentQuestionIndex' = g.currentQuestionIndex
  /\ roundCount' = g.roundCount
  /\ pendingNextRound' = g.pendingNextRound
  /\ undoStack' = g.undoStack
  /\ round' = g.round
  /\ currentTeam' = g.currentTeam
  /\ winner' = g.winner
  /\ hist' = IF Len(g.undoStack) > Len(undoStack)
             THEN Append(hist, View(G))
             ELSE IF Len(g.undoStack) < Len(undoStack)
                  THEN SubSeq(hist, 1, Len(hist) - 1)
                  ELSE hist

Init == \E rnd \in {0, 1} : Starts(NewGame(rnd))

\* one key press
KeyDown(k) ==
  LET after == keydown(G, scoreOverlayVisible, k)
  IN  /\ Becomes(after.g)
      /\ scoreOverlayVisible' = after.visible
      /\ UNCHANGED listening

\* a click on the record button (key R clicks it when the overlay is hidden)
\* whose recognition ends before the next event is handled
HandlePlayerAnswer(depth) ==
  /\ Len(undoStack) < depth
  /\ \E supported \in BOOLEAN, outcome \in Recognitions :
       Becomes(recordOnclick(G, supported, outcome).g)
  /\ UNCHANGED <<scoreOverlayVisible, listening>>

\* the same click up to the return of speech.start(): the recognition is
\* started and its promise is pending.  One recognition runs at a time.
StartRecording ==
  /\ listening = <<>>
  /\ listening' = <<View(G)>>
  /\ UNCHANGED <<teams, currentQuestionIndex, roundCount, pendingNextRound,
                 undoStack, round, currentTeam, winner, scoreOverlayVisible,
                 hist>>

\* the pending promise is settled: onresult hands the transcript to the
\* .then callback, onnomatch and onerror reject
DeliverTranscript(depth) ==
  /\ Len(undoStack) < depth
  /\ listening # <<>>
  /\ \E outcome \in Recognitions :
       Becomes(recordOnclick(G, TRUE, outcome).g)
  /\ listening' = <<>>
  /\ UNCHANGED scoreOverlayVisible

\* keys 1..9
RevealAnswerByNumber(depth) ==
  /\ Len(undoStack) < depth
  /\ \E number \in RankKeys : KeyDown([key |-> "digit", number |-> number])

\* key X
AddErrorForSelectedTeam(depth) ==
  /\ Len(undoStack) < depth
  /\ KeyDown([key |-> "x"])

\* keys Q, W, E
SetCurrentTeam(depth) ==
  /\ Len(undoStack) < depth
  /\ \E c \in {"q", "w", "e"} : KeyDown([key |-> c])

\* key P
AdvanceToNextRound(depth) ==
  /\ Len(undoStack) < depth
  /\ \E rnd \in {0, 1} : KeyDown([key |-> "p", rnd |-> rnd])

\* key Z, undo button
Undo == KeyDown([key |-> "z"])

\* key S
ToggleScoreOverlay == KeyDown([key |-> "s"])

Next ==
  \/ HandlePlayerAnswer(MaxUndo)
  \/ RevealAnswerByNumber(MaxUndo)
  \/ AddErrorForSelectedTeam(MaxUndo)
  \/ SetCurrentTeam(MaxUndo)
  \/ AdvanceToNextRound(MaxUndo)
  \/ Undo

\* the game played with the score overlay left hidden
Spec == Init /\ [][Next]_vars

\* the game played with the score overlay shown and hidden at will
NextKeys ==
  \/ HandlePlayerAnswer(KeysUndo)
  \/ RevealAnswerByNumber(KeysUndo)
  \/ AddErrorForSelectedTeam(KeysUndo)
  \/ SetCurrentTeam(KeysUndo)
  \/ AdvanceToNextRound(KeysUndo)
  \/ Undo
  \/ ToggleScoreOverlay

SpecKeys == Init /\ [][NextKeys]_vars

\* the game played with key presses handled while a recognition is running
NextSpeech ==
  \/ StartRecording
  \/ DeliverTranscript(SpeechUndo)
  \/ RevealAnswerByNumber(SpeechUndo)
  \/ AddErrorForSelectedTeam(SpeechUndo)
  \/ SetCurrentTeam(SpeechUndo)
  \/ AdvanceToNextRound(SpeechUndo)
  \/ Undo

SpecSpeech == Init /\ [][NextSpeech]_vars

----------------------------------------------------------------------------
(* Runs that start later in the game.                                      *)
(*                                                                         *)
(* A starting state is computed by playing the game from its construction: *)
(* each earlier round is won by a chosen team (the team is selected, every *)
(* answer is revealed by number, the round is advanced), and the team that *)
(* starts the last round may already have erred twice.  The snapshots of   *)
(* that play are left out of the stack: no forward operation reads them.   *)
(* The random choice of the opening team falls on the first team in these  *)
(* plays; the plays with the teams exchanged are their mirror images.      *)

RECURSIVE RevealAll(_, _)
RevealAll(g, n) ==
  IF n > Len(getAnswers(g.round.question)) THEN g
  ELSE RevealAll(revealAnswerByNumber(
                   g, getAnswers(g.round.question)[n].lp).g, n + 1)

PlayRound(g, team, rnd) ==
  advanceToNextRound(RevealAll(setCurrentTeam(g, team, FALSE), 1), rnd).g

RECURSIVE PlayRounds(_, _, _)
PlayRounds(g, winners, rnd) ==
  IF winners = <<>> THEN g
  ELSE PlayRounds(PlayRound(g, Head(winners), rnd), Tail(winners), rnd)

RECURSIVE ErrTimes(_, _)
ErrTimes(g, n) ==
  IF n = 0 THEN g ELSE ErrTimes(addErrorForSelectedTeam(g).g, n - 1)

MidStates ==
  { [ErrTimes(PlayRounds(NewGame(rnd), winners, rnd), errs)
       EXCEPT !.undoStack = <<>>] :
      <<winners, rnd, errs>> \in
        (UNION {[1..n -> TeamNames] : n \in 0..(MaxRound - 1)})
          \X {0} \X {0, 2} }

\* a game that was won does not advance: those plays are not starting states
InitMid ==
  \E g \in MidStates :
    /\ ~g.pendingNextRound
    /\ g.winner = NoTeam
    /\ Starts(g)

NextMid ==
  \/ HandlePlayerAnswer(MidUndo)
  \/ RevealAnswerByNumber(MidUndo)
  \/ AddErrorForSelectedTeam(MidUndo)
  \/ SetCurrentTeam(MidUndo)
  \/ AdvanceToNextRound(MidUndo)
  \/ Undo

SpecMid == InitMid /\ [][NextMid]_vars

----------------------------------------------------------------------------
(* Requests, as the claims speak of them *)

\* the other team
Opponent(t) == IF t = BLUE THEN RED ELSE BLUE

\* the scoring factor as the rules state it
RuleFactor(rc) == CASE rc = 4 -> 2 [] rc = 5 -> 3 [] OTHER -> 1

Ranks(g) == {getAnswers(g.round.question)[i].lp :
               i \in 1..Len(getAnswers(g.round.question))}

PointsOf(g, lp) ==
  LET as == getAnswers(g.round.question)
  IN  as[CHOOSE i \in 1..Len(as) : as[i].lp = lp].points

TeamPoints(g) == [n \in TeamNames |-> g.teams[n].points]

\* every reveal request on g: the rank asked for and what the call hands back
RevealRequests(g) ==
  {[lp |-> n, res |-> revealAnswerByNumber(g, n)] : n \in RankKeys}
  \cup
  UNION {{[lp |-> a.lp, res |-> handlePlayerAnswer(g, t)] :
            a \in resolvePlayerAnswer(g, t)} : t \in Guesses}

\* every error request on g
ErrorRequests(g) ==
  {addErrorForSelectedTeam(g)}
  \cup
  {handlePlayerAnswer(g, t) :
     t \in {u \in Guesses : resolvePlayerAnswer(g, u) = {}}}

\* every forward call on g
ForwardCalls(g) ==
  {r.res : r \in RevealRequests(g)} \cup ErrorRequests(g)
  \cup {Quiet(setCurrentTeam(g, n, FALSE)) : n \in {BLUE, RED, NoTeam}}
  \cup {advanceToNextRound(g, rnd) : rnd \in {0, 1}}

\* the part of the game the undo claims compare
Core(g) ==
  [round |-> g.round, teams |-> g.teams, currentTeam |-> g.currentTeam,
   cursor |-> g.currentQuestionIndex]

\* the game as it was before the k-th most recent call that pushed a snapshot
\* still on the stack (k = 1: the last one), with the stack it had then
Before(k) ==
  LET v == hist[Len(hist) - k + 1]
  IN  [f \in (DOMAIN v) \cup {"undoStack"} |->
         IF f = "undoStack" THEN SubSeq(undoStack, 1, Len(undoStack) - k)
         ELSE v[f]]

RECURSIVE UndoTimes(_, _)
UndoTimes(g, n) == IF n = 0 THEN g ELSE UndoTimes(undo(g).g, n - 1)

----------------------------------------------------------------------------
(* C1 *)

\* C1, as stated: from any reachable state, n forward operations of any kind
\* followed by n calls of undo() bring the round, both teams, the active team
\* and the cursor back to what they were (here n = 1 and n = 2).
C1_AnyForwardThenUndo ==
  \A c1 \in ForwardCalls(G) :
    /\ Core(undo(c1.g).g) = Core(G)
    /\ \A c2 \in ForwardCalls(c1.g) : Core(UndoTimes(c2.g, 2)) = Core(G)

\* C1, amended: after n forward operations each of which pushed a snapshot,
\* the n-th undo() brings the round, both teams, the active team and the
\* cursor back to what they were before the first of them.  hist holds the
\* game before each pushing call that has not been undone, so every undo must
\* land on the last entry of hist.
C1_UndoExactness ==
  [][Len(undoStack') < Len(undoStack) => Core(GNext) = Core(hist[Len(hist)])]_vars

\* Three pushing operations (an award, a round advance among them) changed
\* the teams, the round and the cursor, and three undos from here lead back.
C1_Witness ==
  /\ Len(hist) >= 3
  /\ roundCount > hist[Len(hist) - 2].roundCount
  /\ TeamPoints(G) # TeamPoints(hist[Len(hist) - 2])
  /\ Core(G) # Core(hist[Len(hist) - 2])
  /\ Core(UndoTimes(G, 3)) = Core(hist[Len(hist) - 2])

----------------------------------------------------------------------------
(* C2 *)

\* C2: when an awarding reveal makes right equal to the answer count, the
\* team active at that moment gains exactly round.points * m, with m = 2 in
\* round 4, 3 in round 5 and 1 in every other round, and the other team's
\* points do not change.
C2_RoundAward ==
  \A r \in RevealRequests(G) :
    LET cur == getCurrentTeam(G)
        h == r.res.g
        count == Len(getAnswers(round.question))
    IN  (cur # NoTeam /\ round.right # count /\ h.round.right = count) =>
          /\ h.teams[cur].points =
               teams[cur].points + h.round.points * RuleFactor(roundCount)
          /\ h.teams[Opponent(cur)].points = teams[Opponent(cur)].points

\* In round 5 the second answer of the 40/30 question was revealed with a team
\* active, and that team gained 210.
C2_Witness ==
  /\ hist # <<>>
  /\ LET p == hist[Len(hist)]
     IN  /\ p.roundCount = 5 /\ roundCount = 5
         /\ p.currentTeam \in TeamNames
         /\ p.round.right = 1 /\ round.right = 2 /\ round.points = 70
         /\ teams[p.currentTeam].points = p.teams[p.currentTeam].points + 210
         /\ teams[Opponent(p.currentTeam)].points =
              p.teams[Opponent(p.currentTeam)].points

----------------------------------------------------------------------------
(* C3 *)

\* C3, as stated: an error recorded while the status is DEFAULT that brings
\* the erring team to exactly 3 errors sets the status to STOLEN, makes the
\* opponent the active team, credits no points and leaves pendingNextRound
\* false; one that leaves the team below 3 errors changes neither the status
\* nor the active team.
C3_StealEntry ==
  \A e \in ErrorRequests(G) :
    LET cur == getCurrentTeam(G)
        h == e.g
    IN  (cur # NoTeam /\ round.status = DEFAULT) =>
          /\ h.teams[cur].errors = 3 =>
               /\ h.round.status = STOLEN
               /\ h.currentTeam = Opponent(cur)
               /\ TeamPoints(h) = TeamPoints(G)
               /\ h.pendingNextRound = FALSE
          /\ h.teams[cur].errors < 3 =>
               /\ h.round.status = DEFAULT
               /\ h.currentTeam = currentTeam

----------------------------------------------------------------------------
(* C4 *)

\* C4, as stated: whenever the status is STOLEN, any single reveal request or
\* error request ends with pendingNextRound true.
C4_StolenAlwaysEnds ==
  round.status = STOLEN =>
    /\ \A r \in RevealRequests(G) : r.res.g.pendingNextRound
    /\ \A e \in ErrorRequests(G) : e.g.pendingNextRound

\* how an operation that resolves a steal ends
EndsRound(res) ==
  IF res.declared = NoTeam THEN res.g.pendingNextRound
  ELSE res.g.pendingNextRound = pendingNextRound

\* C4, amended: whenever the status is STOLEN and a team is active, any single
\* error request, and any single reveal of a rank of the question that is not
\* yet revealed, ends with pendingNextRound true, unless the operation declares
\* a win, which leaves pendingNextRound as it was.
C4_StolenEnds ==
  (round.status = STOLEN /\ getCurrentTeam(G) # NoTeam) =>
    /\ \A r \in RevealRequests(G) :
         r.lp \in Ranks(G) \ round.revealed => EndsRound(r.res)
    /\ \A e \in ErrorRequests(G) : EndsRound(e)

\* A team acted once in a stolen round that was still open, no win was
\* declared, and the next round is pending.
C4_Witness ==
  /\ hist # <<>>
  /\ LET p == hist[Len(hist)]
     IN  /\ p.round.status = STOLEN
         /\ p.currentTeam \in TeamNames
         /\ ~p.pendingNextRound
         /\ p.round.revealed # round.revealed
         /\ pendingNextRound
         /\ winner = NoTeam

----------------------------------------------------------------------------
(* C5 *)

\* C5: when the active team errs while the status is STOLEN, exactly
\* round.points * multiplier(roundCount) is credited to the opponent of the
\* erring team, the erring team's points do not change and round.points is
\* not modified.
C5_StealByError ==
  \A e \in ErrorRequests(G) :
    LET cur == getCurrentTeam(G)
        h == e.g
    IN  (cur # NoTeam /\ round.status = STOLEN) =>
          /\ h.teams[Opponent(cur)].points =
               teams[Opponent(cur)].points
                 + round.points * RuleFactor(roundCount)
          /\ h.teams[cur].points = teams[cur].points
          /\ h.round.points = round.points
          /\ e.credited = Opponent(cur)

\* In round 5 a team erred in a stolen round worth 40: its opponent gained 120.
C5_Witness ==
  /\ hist # <<>>
  /\ LET p == hist[Len(hist)]
     IN  /\ p.round.status = STOLEN /\ p.roundCount = 5
         /\ p.currentTeam \in TeamNames
         /\ p.round.points = 40 /\ round.points = 40
         /\ teams[p.currentTeam].errors = p.teams[p.currentTeam].errors + 1
         /\ teams[p.currentTeam].points = p.teams[p.currentTeam].points
         /\ teams[Opponent(p.currentTeam)].points =
              p.teams[Opponent(p.currentTeam)].points + 120

----------------------------------------------------------------------------
(* C6 *)

\* team x has just made its third error in DEFAULT: the status is STOLEN and
\* the opponent is active
JustStolenFrom(x) ==
  /\ hist # <<>>
  /\ LET p == hist[Len(hist)]
     IN  /\ p.round.status = DEFAULT /\ p.currentTeam = x
         /\ p.teams[x].errors = 2
  /\ round.status = STOLEN /\ currentTeam = Opponent(x)
  /\ teams[x].errors = 3

\* C6, as stated: after X's third error in DEFAULT (Y active, STOLEN), an
\* error of Y that declares no win ends with pendingNextRound true and X,
\* the original team, active.
C6_HandOffToOriginal ==
  \A x \in TeamNames :
    JustStolenFrom(x) =>
      \A e \in ErrorRequests(G) :
        e.declared = NoTeam =>
          e.g.pendingNextRound /\ e.g.currentTeam = x

\* C6, amended: ... ends with pendingNextRound true and Y, the team that has
\* just erred (the opponent of the credited team X), active.
C6_HandOff ==
  \A x \in TeamNames :
    JustStolenFrom(x) =>
      \A e \in ErrorRequests(G) :
        e.declared = NoTeam =>
          e.g.pendingNextRound /\ e.g.currentTeam = Opponent(x)

\* X made its third error, then Y erred once: the round is pending, no win.
C6_Witness ==
  /\ Len(hist) >= 2
  /\ \E x \in TeamNames :
       /\ Before(2).round.status = DEFAULT /\ Before(2).currentTeam = x
       /\ Before(2).teams[x].errors = 2
       /\ Before(1) = addErrorForSelectedTeam(Before(2)).g
       /\ Before(1).round.status = STOLEN
       /\ G = addErrorForSelectedTeam(Before(1)).g
       /\ pendingNextRound /\ winner = NoTeam
       /\ teams[Opponent(x)].errors = 1

----------------------------------------------------------------------------
(* C7 *)

\* C7: once pendingNextRound is true, no further reveal or error request
\* made before the round is advanced changes either team's points.
C7_AwardedOnce ==
  pendingNextRound =>
    /\ \A r \in RevealRequests(G) : TeamPoints(r.res.g) = TeamPoints(G)
    /\ \A e \in ErrorRequests(G) : TeamPoints(e.g) = TeamPoints(G)

----------------------------------------------------------------------------
(* C8 *)

Scored(g) ==
  [points |-> g.round.points, right |-> g.round.right,
   revealed |-> g.round.revealed, teamPoints |-> TeamPoints(g),
   currentTeam |-> g.currentTeam, status |-> g.round.status,
   pendingNextRound |-> g.pendingNextRound]

\* C8: two consecutive revealAnswerByNumber(r) calls, with or without an
\* active team: round.points, right, the revealed set, both teams' points, the
\* active team, the status and pendingNextRound are after the second call what
\* they were after the first.
C8_RevealIdempotent ==
  \A n \in RankKeys :
    LET first == revealAnswerByNumber(G, n).g
    IN  Scored(revealAnswerByNumber(first, n).g) = Scored(first)

\* The same rank was revealed by number twice in a row, the first time newly
\* and with points for the round.
C8_Witness ==
  /\ Len(hist) >= 2
  /\ \E n \in RankKeys :
       /\ n \notin Before(2).round.revealed
       /\ Before(1) = revealAnswerByNumber(Before(2), n).g
       /\ Before(1).round.points > Before(2).round.points
       /\ G = revealAnswerByNumber(Before(1), n).g

----------------------------------------------------------------------------
(* C9 *)

\* C9: a reveal request, by rank or by matching text, with or without an
\* active team, for a rank already in the revealed set changes nothing: not
\* the round, the teams, the active team, pendingNextRound, roundCount or
\* the cursor.
C9_ReRevealNoOp ==
  \A r \in RevealRequests(G) :
    r.lp \in round.revealed =>
      /\ r.res.g.round = round
      /\ r.res.g.teams = teams
      /\ r.res.g.currentTeam = currentTeam
      /\ r.res.g.pendingNextRound = pendingNextRound
      /\ r.res.g.roundCount = roundCount
      /\ r.res.g.currentQuestionIndex = currentQuestionIndex

----------------------------------------------------------------------------
(* C10 *)

----------------------------------------------------------------------------
(* C11 *)

\* C11, as the README states the rule: a win is declared as soon as a round
\* award brings a team's total to 300 or more.
C11_WinAt300 ==
  \A c \in ForwardCalls(G) :
    (c.credited # NoTeam /\ c.g.teams[c.credited].points >= 300) =>
      c.declared = c.credited /\ c.g.winner = c.credited

----------------------------------------------------------------------------
(* C12 *)

\* C12: undo() on an empty undo stack returns false and leaves the whole game
\* unchanged: round, both teams, active team, roundCount, pendingNextRound,
\* cursor, and the stack stays empty.
C12_UndoOnEmpty ==
  undoStack = <<>> => undo(G).ret = FALSE /\ undo(G).g = G

\* Nothing is left to undo in a game that is several rounds in, with points
\* and errors on the board and a team selected; undo() reports false.
C12_Witness ==
  /\ undoStack = <<>>
  /\ roundCount >= 3
  /\ currentTeam \in TeamNames
  /\ teams[currentTeam].errors = 2
  /\ teams[BLUE].points > 0 /\ teams[RED].points > 0
  /\ ~undo(G).ret /\ undo(G).g = G

----------------------------------------------------------------------------
(* C13 *)

\* C13: revealAnswerByNumber(r) for a rank r that is not a rank of the current
\* question returns false and changes nothing: round, teams, active team,
\* pendingNextRound and cursor are unchanged and no snapshot is pushed.
C13_NotFound ==
  \A n \in RankKeys :
    n \notin Ranks(G) =>
      LET res == revealAnswerByNumber(G, n)
      IN  res.ret = FALSE /\ res.g = G

\* Rank 2 is asked for in a round whose question has rank 1 only, after an
\* operation of this round that left a snapshot on the stack.
C13_Witness ==
  /\ hist # <<>>
  /\ hist[Len(hist)].roundCount = roundCount
  /\ 2 \notin Ranks(G) /\ 1 \in Ranks(G)
  /\ ~revealAnswerByNumber(G, 2).ret
  /\ revealAnswerByNumber(G, 2).g = G

----------------------------------------------------------------------------
(* C14 *)

\* the cursor of a fresh store of n questions after k calls of getQuestion()
RECURSIVE CursorAfter(_, _)
CursorAfter(n, k) == IF k = 0 THEN 0 ELSE nextIndex(n, CursorAfter(n, k - 1))

\* C14: for a store of N >= 1 questions the k-th call of getQuestion()
\* (k from 1) returns question (k - 1) mod N, so call N + 1 returns the first
\* question again, and the cursor stays in [0, N).  In the game the k-th call
\* is the one that opens round k: the round's question is question
\* (roundCount - 1) mod N and the cursor is in range.
C14_CircularOrder ==
  /\ \A n \in 1..MaxStore : \A k \in 1..MaxCalls :
       /\ CursorAfter(n, k - 1) = (k - 1) % n
       /\ CursorAfter(n, k) \in 0..(n - 1)
  /\ \A n \in 1..MaxStore : CursorAfter(n, n) = 0
  /\ round.question = (roundCount - 1) % NumQuestions
  /\ currentQuestionIndex \in 0..(NumQuestions - 1)
  /\ currentQuestionIndex = roundCount % NumQuestions

\* Round N + 1 was opened by advancing from round N, which played the last
\* question of the store: the first question is on the board again.
C14_Witness ==
  /\ hist # <<>>
  /\ roundCount = NumQuestions + 1
  /\ Before(1).roundCount = NumQuestions
  /\ Before(1).round.question = NumQuestions - 1
  /\ \E rnd \in {0, 1} : G = advanceToNextRound(Before(1), rnd).g
  /\ round.question = 0

----------------------------------------------------------------------------
(* C15 *)

\* C15: advanceToNextRound() while pendingNextRound is false returns false and
\* changes nothing: roundCount, round, both teams' points and errors, active
\* team, cursor and the undo stack are unchanged.
C15_AdvanceNotPending ==
  ~pendingNextRound =>
    \A rnd \in {0, 1} :
      LET res == advanceToNextRound(G, rnd)
      IN  res.ret = FALSE /\ res.g = G

\* A round is under way (an answer revealed and scored, an error made),
\* nothing is pending, and advanceToNextRound() is refused.
C15_Witness ==
  /\ ~pendingNextRound
  /\ round.right = 1 /\ round.points > 0
  /\ currentTeam \in TeamNames /\ teams[currentTeam].errors > 0
  /\ undoStack # <<>>
  /\ \A rnd \in {0, 1} : ~advanceToNextRound(G, rnd).ret

----------------------------------------------------------------------------
(* C16 *)

\* C16: advanceToNextRound() while pendingNextRound is true starts a fresh
\* round: roundCount grows by exactly 1, the round's question is the one at
\* the cursor and the cursor advances by one (mod N), the new round is DEFAULT
\* with nothing revealed, right = 0 and points = 0, both teams' error counts
\* are 0, pendingNextRound is false, exactly one of the two teams is active,
\* and both teams' points are unchanged.
C16_AdvancePending ==
  pendingNextRound =>
    \A rnd \in {0, 1} :
      LET h == advanceToNextRound(G, rnd).g
      IN  /\ h.roundCount = roundCount + 1
          /\ h.round.question = currentQuestionIndex
          /\ h.currentQuestionIndex = (currentQuestionIndex + 1) % NumQuestions
          /\ h.round.status = DEFAULT /\ h.round.revealed = {}
          /\ h.round.right = 0 /\ h.round.points = 0
          /\ \A n \in TeamNames : h.teams[n].errors = 0
          /\ h.pendingNextRound = FALSE
          /\ h.currentTeam \in TeamNames
          /\ TeamPoints(h) = TeamPoints(G)

\* A round that ended by a steal, with errors on both teams, was advanced in
\* a game with points on the board: the new round is fresh.
C16_Witness ==
  /\ hist # <<>>
  /\ Before(1).pendingNextRound
  /\ Before(1).round.status = STOLEN
  /\ \A n \in TeamNames : Before(1).teams[n].errors > 0
  /\ \E rnd \in {0, 1} : G = advanceToNextRound(Before(1), rnd).g
  /\ round = NewRound(Before(1).currentQuestionIndex)
  /\ TeamPoints(G) = TeamPoints(Before(1))
  /\ \E n \in TeamNames : teams[n].points > 0

----------------------------------------------------------------------------
(* The forward path *)

\* the states the game went through by the calls that pushed the snapshots
\* still on the stack, the current state last; calls that were undone are
\* not on it
Path == Append(hist, View(G))

\* the steps of the path inside round rc
StepsOfRound(rc) ==
  {i \in 1..(Len(Path) - 1) :
     Path[i].roundCount = rc /\ Path[i + 1].roundCount = rc}

----------------------------------------------------------------------------
(* C17 *)

\* C17: in every reachable state each team's errorCount is between 0 and 3.
C17_ErrorsAtMost3 ==
  \A n \in TeamNames : teams[n].errors \in 0..3

----------------------------------------------------------------------------
(* C18 *)

\* C18: within one round no forward operation changes the status from STOLEN
\* back to DEFAULT, and the step from DEFAULT to STOLEN, which hands the turn
\* to the opponent, occurs at most once between two round starts.
C18_StolenStays ==
  /\ \A c \in ForwardCalls(G) :
       (c.g.roundCount = roundCount /\ round.status = STOLEN) =>
         c.g.round.status = STOLEN
  /\ \A i, j \in 1..Len(Path) :
       (i < j /\ Path[i].roundCount = Path[j].roundCount
          /\ Path[i].round.status = STOLEN) =>
         Path[j].round.status = STOLEN
  /\ \A rc \in {Path[i].roundCount : i \in 1..Len(Path)} :
       LET steals == {i \in StepsOfRound(rc) :
                        /\ Path[i].round.status = DEFAULT
                        /\ Path[i + 1].round.status = STOLEN}
       IN  /\ Cardinality(steals) <= 1
           /\ \A i \in steals :
                /\ Path[i].currentTeam \in TeamNames
                /\ Path[i + 1].currentTeam = Opponent(Path[i].currentTeam)

\* A round was stolen and two more forward operations of the same round
\* followed, the steal resolved among them: the status is still STOLEN.
C18_Witness ==
  /\ Len(hist) >= 3
  /\ Before(3).round.status = DEFAULT
  /\ Before(2).round.status = STOLEN
  /\ Before(3).roundCount = roundCount
  /\ pendingNextRound /\ ~Before(2).pendingNextRound
  /\ Before(1) # G
  /\ round.status = STOLEN

----------------------------------------------------------------------------
(* C19 *)

\* C19: the round's revealed set is a subset of the ranks of the round's
\* question in every reachable state; reveal and error requests only add to
\* it; it is empty right after every round start.
C19_RevealedRanks ==
  /\ round.revealed \subseteq Ranks(G)
  /\ \A r \in RevealRequests(G) : round.revealed \subseteq r.res.g.round.revealed
  /\ \A e \in ErrorRequests(G) : round.revealed \subseteq e.g.round.revealed
  /\ pendingNextRound =>
       \A rnd \in {0, 1} : advanceToNextRound(G, rnd).g.round.revealed = {}
  /\ \A i \in 1..(Len(Path) - 1) :
       Path[i + 1].roundCount # Path[i].roundCount =>
         Path[i + 1].round.revealed = {}

\* Both ranks of the two-answer question were revealed by two operations of
\* this round; advancing from here opens the single-answer question with
\* nothing revealed, and undoing that advance puts the two ranks back on the
\* board together with their question.
C19_Witness ==
  /\ round.revealed = {1, 2}
  /\ Ranks(G) = {1, 2}
  /\ Len(hist) >= 2
  /\ \E rnd \in {0, 1} :
       LET next == advanceToNextRound(G, rnd).g
       IN  /\ next.round.revealed = {}
           /\ Ranks(next) = {1}
           /\ undo(next).g = G

----------------------------------------------------------------------------
(* C20 *)

\* the ranks revealed in the current round by a step taken with a team active
AwardedRanks ==
  UNION {Path[i + 1].round.revealed \ Path[i].round.revealed :
           i \in {j \in StepsOfRound(roundCount) :
                    Path[j].currentTeam \in TeamNames}}

RECURSIVE SumPoints(_, _)
SumPoints(g, lps) ==
  IF lps = {} THEN 0
  ELSE LET lp == CHOOSE x \in lps : TRUE
       IN  PointsOf(g, lp) + SumPoints(g, lps \ {lp})

\* C20: in every reachable state round.points is the sum of the point values
\* of exactly the ranks revealed in the current round while a team was active;
\* a rank revealed with no team active adds nothing, and an operation that
\* awards the round leaves round.points at that sum.
C20_RoundPoints ==
  /\ round.points = SumPoints(G, AwardedRanks)
  /\ \A r \in RevealRequests(G) :
       LET new == r.res.g.round.revealed \ round.revealed
       IN  r.res.g.round.points =
             round.points
               + (IF getCurrentTeam(G) = NoTeam THEN 0
                  ELSE SumPoints(G, new))
  /\ \A e \in ErrorRequests(G) : e.g.round.points = round.points

\* One rank was revealed with a team active and the other with none; the
\* round is complete and its points are those of the first rank alone.
C20_Witness ==
  /\ round.revealed = {1, 2}
  /\ Cardinality(AwardedRanks) = 1
  /\ round.points = SumPoints(G, AwardedRanks)
  /\ round.points \in {30, 40}
  /\ pendingNextRound

----------------------------------------------------------------------------
(* C21 *)

\* C21: when an awarding reveal completes the round (right reaches the answer
\* count) and the credited team's total stays below 400, the operation ends
\* with the opponent of the credited team active and pendingNextRound true.
C21_CompletionNoWin ==
  \A r \in RevealRequests(G) :
    LET cur == getCurrentTeam(G)
        h == r.res.g
        count == Len(getAnswers(round.question))
    IN  (cur # NoTeam /\ round.right # count /\ h.round.right = count
           /\ h.teams[cur].points < 400) =>
          /\ r.res.credited = cur
          /\ h.currentTeam = Opponent(cur)
          /\ h.pendingNextRound

\* The second of two answers was revealed with a team active: the team was
\* credited 70, stays below 400, and its opponent has the turn.
C21_Witness ==
  /\ hist # <<>>
  /\ Before(1).currentTeam \in TeamNames
  /\ Before(1).round.right = 1 /\ ~Before(1).pendingNextRound
  /\ round.right = 2 /\ round.points = 70
  /\ teams[Before(1).currentTeam].points =
       Before(1).teams[Before(1).currentTeam].points + 70
  /\ teams[Before(1).currentTeam].points < 400
  /\ currentTeam = Opponent(Before(1).currentTeam)
  /\ pendingNextRound /\ winner = NoTeam

----------------------------------------------------------------------------
(* C22 *)

\* C22: while no team is active, a reveal (by rank or by matching text) of a
\* rank not yet revealed marks it revealed and increments right, changes
\* neither round.points nor any team's points, and sets pendingNextRound
\* exactly when right reaches the answer count; an error request is rejected:
\* it changes no team's error count, not the status and not the active team.
C22_NoTeamActive ==
  getCurrentTeam(G) = NoTeam =>
    /\ \A r \in RevealRequests(G) :
         LET h == r.res.g
         IN  r.lp \in Ranks(G) \ round.revealed =>
               /\ h.round.revealed = round.revealed \cup {r.lp}
               /\ h.round.right = round.right + 1
               /\ h.round.points = round.points
               /\ h.teams = teams
               /\ h.pendingNextRound =
                    (pendingNextRound
                       \/ h.round.right = Len(getAnswers(round.question)))
    /\ ~addErrorForSelectedTeam(G).ret
    /\ \A e \in ErrorRequests(G) :
         /\ e.g.teams = teams
         /\ e.g.round = round
         /\ e.g.currentTeam = currentTeam
         /\ e.credited = NoTeam

\* With no team selected the last answer of the question was revealed by
\* number: nothing was scored and the next round is now pending.
C22_Witness ==
  /\ hist # <<>>
  /\ Before(1).currentTeam = NoTeam
  /\ ~Before(1).pendingNextRound
  /\ \E n \in RankKeys : G = revealAnswerByNumber(Before(1), n).g
  /\ round.right = Before(1).round.right + 1
  /\ round.right = Len(getAnswers(round.question))
  /\ round.points = Before(1).round.points
  /\ teams = Before(1).teams
  /\ pendingNextRound

----------------------------------------------------------------------------
(* C23 *)

\* C23: handlePlayerAnswer with a guess that matches no answer of the current
\* question, issued while no team is active, is a no-op: no part of the game
\* state changes.
C23_NoMatchNoTeamNoOp ==
  getCurrentTeam(G) = NoTeam =>
    \A text \in Guesses :
      resolvePlayerAnswer(G, text) = {} => handlePlayerAnswer(G, text).g = G

----------------------------------------------------------------------------
(* C24 *)

\* the part of the game the dispatch claim compares
Outcome(g) ==
  [round |-> g.round, teams |-> g.teams, currentTeam |-> g.currentTeam,
   pendingNextRound |-> g.pendingNextRound, depth |-> Len(g.undoStack)]

\* C24: from the same state, handlePlayerAnswer with a guess that matches the
\* answer of rank r gives the same round, teams, active team, pendingNextRound
\* and undo-stack length as revealAnswerByNumber(r), with a team active and
\* with none; and with a team active handlePlayerAnswer with a guess that
\* matches nothing gives the same as addErrorForSelectedTeam().
C24_DispatchEquivalence ==
  /\ \A text \in Guesses :
       \A a \in resolvePlayerAnswer(G, text) :
         Outcome(handlePlayerAnswer(G, text).g)
           = Outcome(revealAnswerByNumber(G, a.lp).g)
  /\ getCurrentTeam(G) # NoTeam =>
       \A text \in Guesses :
         resolvePlayerAnswer(G, text) = {} =>
           Outcome(handlePlayerAnswer(G, text).g)
             = Outcome(addErrorForSelectedTeam(G).g)

\* A team's matching guess scored, and pressing the rank's key in the state
\* before would have led to this very state; before that the same team guessed
\* wrong, where key X would have done the same.
C24_Witness ==
  /\ Len(hist) >= 2
  /\ Before(2).currentTeam \in TeamNames
  /\ \E text \in Guesses :
       /\ resolvePlayerAnswer(Before(2), text) = {}
       /\ Before(1) = handlePlayerAnswer(Before(2), text).g
       /\ Before(1) = addErrorForSelectedTeam(Before(2)).g
  /\ \E text \in Guesses :
       \E a \in resolvePlayerAnswer(Before(1), text) :
         /\ G = handlePlayerAnswer(Before(1), text).g
         /\ G = revealAnswerByNumber(Before(1), a.lp).g
  /\ round.points > Before(1).round.points

----------------------------------------------------------------------------
(* C25 *)

\* C25: every forward operation that changes the game pushes a snapshot of the
\* state before it; no forward operation removes a snapshot; undo() never
\* pushes, and a successful undo() shortens the stack by exactly one.
C25_UndoStackDiscipline ==
  /\ \A c \in ForwardCalls(G) :
       /\ c.g.undoStack \in {undoStack, Append(undoStack, Snapshot(G))}
       /\ View(c.g) # View(G) =>
            c.g.undoStack = Append(undoStack, Snapshot(G))
  /\ LET u == undo(G)
     IN  IF u.ret
         THEN /\ undoStack # <<>>
              /\ u.g.undoStack = SubSeq(undoStack, 1, Len(undoStack) - 1)
         ELSE u.g.undoStack = undoStack

\* Three operations that each changed the game left three snapshots, each the
\* snapshot of the game before its operation, and an undo removes the last.
C25_Witness ==
  /\ Len(undoStack) >= 3
  /\ \A k \in 1..3 :
       /\ undoStack[Len(undoStack) - k + 1] = Snapshot(Before(k))
       /\ View(Before(k)) # (IF k = 1 THEN View(G) ELSE View(Before(k - 1)))
  /\ undo(G).ret
  /\ Len(undo(G).g.undoStack) = Len(undoStack) - 1

----------------------------------------------------------------------------
(* C26 *)

\* C26: a started recognition that ends in failure is handled as an ordinary
\* guess that matches nothing: with a team active that team is charged one
\* error as by addErrorForSelectedTeam(), with no team active nothing changes,
\* and the failure is never left as an unhandled fault.
C26_FailureIsWrongGuess ==
  \A failure \in RecognitionFailures :
    LET res == recordOnclick(G, TRUE, failure)
    IN  /\ ~res.unhandled
        /\ getCurrentTeam(G) # NoTeam =>
             Outcome(res.g) = Outcome(addErrorForSelectedTeam(G).g)
        /\ getCurrentTeam(G) = NoTeam => View(res.g) = View(G)

----------------------------------------------------------------------------
(* C27 *)

\* case-folding and diacritic-folding of a text
FoldText(s) == removeDiacritics(toLowerCase(s))

\* C27: a guess that equals an answer's text after case-folding and
\* diacritic-folding is resolved to that answer, so it is a reveal and the
\* active team is charged no error.
C27_GuessNormalization ==
  \A text \in Guesses :
    \A i \in 1..Len(getAnswers(round.question)) :
      LET answer == getAnswers(round.question)[i]
      IN  FoldText(text) = FoldText(answer.ans) =>
            /\ resolvePlayerAnswer(G, text) = {answer}
            /\ getCurrentTeam(G) # NoTeam =>
                 handlePlayerAnswer(G, text).g.teams[getCurrentTeam(G)].errors
                   = teams[getCurrentTeam(G)].errors

----------------------------------------------------------------------------
(* C28 *)

----------------------------------------------------------------------------
(* C29 *)

\* what a single undo is to restore
Restored(g) ==
  [roundCount |-> g.roundCount, pendingNextRound |-> g.pendingNextRound,
   round |-> g.round, teams |-> g.teams, currentTeam |-> g.currentTeam,
   cursor |-> g.currentQuestionIndex]

\* C29: from any reachable state, one forward operation that pushes a
\* snapshot followed by one undo() restores roundCount, pendingNextRound, the
\* round, both teams' points and errors, the active team and the cursor to
\* their values before the operation, also when the operation advanced the
\* round, awarded it or won the game.
C29_SingleStepUndo ==
  \A c \in ForwardCalls(G) :
    Len(c.g.undoStack) > Len(undoStack) =>
      /\ undo(c.g).ret
      /\ Restored(undo(c.g).g) = Restored(G)
      /\ undo(c.g).g.undoStack = undoStack

\* The last operation won the game, and one undo leads back to the game as
\* it was before it, with the round open and no winner.
C29_Witness ==
  /\ hist # <<>>
  /\ winner \in TeamNames
  /\ Before(1).winner = NoTeam
  /\ teams[winner].points > Before(1).teams[winner].points
  /\ Restored(G) # Restored(Before(1))
  /\ undo(G).g = Before(1)

----------------------------------------------------------------------------
(* C30 *)

\* C30: when the active team reveals an answer not yet revealed while the
\* status is STOLEN, the round finishes in that operation even if answers
\* remain unrevealed: the answer's points are added to round.points, then
\* round.points * multiplier(roundCount) is credited to the team that was
\* active, and unless that team reaches 400 the turn passes to its opponent
\* and pendingNextRound becomes true.
C30_SuccessfulSteal ==
  \A r \in RevealRequests(G) :
    LET cur == getCurrentTeam(G)
        h == r.res.g
    IN  (cur # NoTeam /\ round.status = STOLEN
           /\ r.lp \in Ranks(G) \ round.revealed) =>
          /\ h.round.points = round.points + PointsOf(G, r.lp)
          /\ r.res.credited = cur
          /\ h.teams[cur].points =
               teams[cur].points + h.round.points * RuleFactor(roundCount)
          /\ h.teams[Opponent(cur)].points = teams[Opponent(cur)].points
          /\ IF h.teams[cur].points >= 400
             THEN r.res.declared = cur
             ELSE /\ r.res.declared = NoTeam
                  /\ h.currentTeam = Opponent(cur)
                  /\ h.pendingNextRound

\* The stealing team revealed one of two answers: it was credited that
\* answer's points, the other answer is still hidden, the round is over.
C30_Witness ==
  /\ hist # <<>>
  /\ Before(1).round.status = STOLEN
  /\ Before(1).currentTeam \in TeamNames
  /\ ~Before(1).pendingNextRound
  /\ Before(1).round.right = 0 /\ round.right = 1
  /\ round.right < Len(getAnswers(round.question))
  /\ round.points > 0
  /\ teams[Before(1).currentTeam].points =
       Before(1).teams[Before(1).currentTeam].points
         + round.points * RuleFactor(roundCount)
  /\ currentTeam = Opponent(Before(1).currentTeam)
  /\ pendingNextRound

----------------------------------------------------------------------------
(* C31 *)

\* C31: once a win has been declared, no forward operation (reveal, error,
\* team selection, round advance) changes either team's points or error
\* counts, and none of them leaves the won state.
C31_TerminalWin ==
  winner # NoTeam =>
    \A c \in ForwardCalls(G) :
      /\ c.g.teams = teams
      /\ c.g.winner = winner

----------------------------------------------------------------------------
(* C32 *)

\* C32: an operation that declares a win does not set pendingNextRound and
\* does not switch the active team after the award: after a winning round
\* completion or steal by reveal the team that was active is the winner and
\* is still active, after a winning steal resolution by error the credited
\* opponent is the winner and is active, and advanceToNextRound() called
\* right afterwards returns false.
C32_WinLeavesNoPending ==
  LET cur == getCurrentTeam(G)
      Won(c, team) ==
        /\ c.credited = team
        /\ c.g.winner = team
        /\ c.g.currentTeam = team
        /\ ~c.g.pendingNextRound
        /\ \A rnd \in {0, 1} :
             /\ ~advanceToNextRound(c.g, rnd).ret
             /\ advanceToNextRound(c.g, rnd).g = c.g
  IN  /\ \A r \in RevealRequests(G) :
           r.res.declared # NoTeam => r.res.declared = cur /\ Won(r.res, cur)
      /\ \A e \in ErrorRequests(G) :
           e.declared # NoTeam =>
             e.declared = Opponent(cur) /\ Won(e, Opponent(cur))

----------------------------------------------------------------------------
(* C33 *)

\* the game as it was when the running recognition was started
AtStart == listening[1]

\* C33: a transcript is scored against the round that was active when its
\* recording was started: whatever was handled between the start and the
\* delivery, the transcript is matched against the question of the start and
\* an error for it is charged to the team that was active at the start.
C33_ScoredAgainstStart ==
  listening # <<>> =>
    \A text \in Guesses :
      LET res == handlePlayerAnswer(G, text)
      IN  /\ resolvePlayerAnswer(G, text) = resolvePlayerAnswer(AtStart, text)
          /\ \A n \in TeamNames :
               res.g.teams[n].errors > teams[n].errors =>
                 n = AtStart.currentTeam

----------------------------------------------------------------------------
(* C34 *)

\* C34: each externally triggered operation pushes at most one snapshot, the
\* snapshot of the game as it was before the operation, so that one undo()
\* reverts exactly one user action: the team switches and the random team
\* selection made inside a round award, steal handling and a round start push
\* none, undo() pushes none, and advanceToNextRound() pushes exactly one when
\* it is effective and none when it is not.
C34_OneSnapshotPerOperation ==
  /\ \A c \in ForwardCalls(G) :
       \/ c.g.undoStack = undoStack
       \/ /\ c.g.undoStack = Append(undoStack, Snapshot(G))
          /\ undo(c.g).g = G
  /\ \A rnd \in {0, 1} :
       advanceToNextRound(G, rnd).g.undoStack =
         IF pendingNextRound THEN Append(undoStack, Snapshot(G)) ELSE undoStack
  /\ undoStack # <<>> =>
       undo(G).g.undoStack = SubSeq(undoStack, 1, Len(undoStack) - 1)

\* A reveal completed a round (the turn was switched inside the award) and
\* the round was then advanced (errors reset, a team drawn): the stack grew by
\* one snapshot for each of the two, and two undos lead back before the reveal.
C34_Witness ==
  /\ Len(hist) >= 2
  /\ Before(2).currentTeam \in TeamNames
  /\ ~Before(2).pendingNextRound
  /\ Before(1).pendingNextRound
  /\ Before(1).currentTeam = Opponent(Before(2).currentTeam)
  /\ Before(1).round.right = Before(2).round.right + 1
  /\ roundCount = Before(1).roundCount + 1
  /\ Len(undoStack) = Len(Before(2).undoStack) + 2
  /\ undo(G).g = Before(1)
  /\ UndoTimes(G, 2) = Before(2)

----------------------------------------------------------------------------
(* C35 *)

\* C35: in every reachable state, after an undo as well, the round's right
\* counter equals the number of ranks in its revealed set, the revealed ranks
\* are ranks of the current question, and so right never exceeds the
\* question's answer count.
C35_RightCountsRevealed ==
  /\ round.right = Cardinality(round.revealed)
  /\ round.revealed \subseteq Ranks(G)
  /\ round.right <= Len(getAnswers(round.question))

\* Both answers of the first question were revealed one after the other, and
\* an undo from here leaves one rank revealed and right at 1.
C35_Witness ==
  /\ Len(hist) >= 2
  /\ round.revealed = {1, 2} /\ round.right = 2
  /\ Before(1).round.revealed = {1} /\ Before(1).round.right = 1
  /\ Before(2).round.revealed = {} /\ Before(2).round.right = 0
  /\ undo(G).g.round.right = 1
  /\ undo(G).g.round.revealed = {1}

----------------------------------------------------------------------------
(* C36 *)

\* C36: in every reachable state of a game over a store of N >= 1 questions,
\* roundCount >= 1, the cursor of the store equals roundCount mod N and the
\* round's question is the store's question (roundCount - 1) mod N; this is
\* kept by a round advance and by an undo, so that undoing a round advance
\* makes the next advance replay the same question.  The game is played over
\* the store of NumQuestions questions; the two steps that keep the relation
\* (the cursor update of a round start, the index restored by undo) are
\* checked for every store size 1..MaxStore and round 1..MaxCalls.
C36_CursorFollowsRound ==
  /\ roundCount >= 1
  /\ currentQuestionIndex = roundCount % NumQuestions
  /\ round.question = (roundCount - 1) % NumQuestions
  /\ pendingNextRound =>
       \A rnd1 \in {0, 1}, rnd2 \in {0, 1} :
         LET advanced == advanceToNextRound(G, rnd1).g
             undone == undo(advanced).g
             again == advanceToNextRound(undone, rnd2).g
         IN  /\ undone.roundCount = roundCount
             /\ undone.currentQuestionIndex = currentQuestionIndex
             /\ undone.round.question = round.question
             /\ again.roundCount = advanced.roundCount
             /\ again.round.question = advanced.round.question
             /\ again.currentQuestionIndex = advanced.currentQuestionIndex
  /\ \A n \in 1..MaxStore : \A rc \in 1..MaxCalls :
       /\ nextIndex(n, rc % n) = (rc + 1) % n
       /\ normalizedIndex(n, rc % n) = rc % n

\* A round past the end of the store was opened by a round advance: the
\* store has wrapped, an undo goes back to the round before with its question
\* and cursor, and advancing again opens the same question.
C36_Witness ==
  /\ hist # <<>>
  /\ roundCount > NumQuestions
  /\ roundCount = Before(1).roundCount + 1
  /\ Before(1).pendingNextRound
  /\ round.question # Before(1).round.question
  /\ currentQuestionIndex # Before(1).currentQuestionIndex
  /\ undo(G).g = Before(1)
  /\ \A rnd \in {0, 1} :
       advanceToNextRound(undo(G).g, rnd).g.round.question = round.question

----------------------------------------------------------------------------
(* C37 *)

\* C37: in every reachable state, pendingNextRound true implies that the
\* current round is finished in one of the two ways the code knows: all
\* answers are revealed (right equals the answer count) or the round status
\* is STOLEN.
C37_PendingMeansFinished ==
  pendingNextRound =>
    \/ round.right = Len(getAnswers(round.question))
    \/ round.status = STOLEN

\* A steal was resolved by an error with an answer still hidden: the round is
\* pending on its STOLEN status alone.
C37_Witness ==
  /\ hist # <<>>
  /\ pendingNextRound
  /\ ~Before(1).pendingNextRound
  /\ round.status = STOLEN
  /\ round.right < Len(getAnswers(round.question))
  /\ \E n \in TeamNames : teams[n].errors > Before(1).teams[n].errors

----------------------------------------------------------------------------
(* C38 *)

\* C38: in every reachable state, round status DEFAULT implies that both
\* teams' errorCount is at most 2, and round status STOLEN implies that at
\* least one team's errorCount is at least 3; also when the operator changes
\* the active team between errors, and after an undo.
C38_StatusAndErrors ==
  /\ round.status = DEFAULT => \A n \in TeamNames : teams[n].errors <= 2
  /\ round.status = STOLEN => \E n \in TeamNames : teams[n].errors >= 3

\* The operator changed the active team between errors: both teams have two
\* errors and the round is still open; the next error of either team starts
\* the steal.
C38_Witness ==
  /\ Len(hist) >= 3
  /\ round.status = DEFAULT
  /\ \A n \in TeamNames : teams[n].errors = 2
  /\ Before(3).currentTeam \in TeamNames
  /\ Before(2).currentTeam = Opponent(Before(3).currentTeam)
  /\ Before(2).teams = Before(3).teams
  /\ Before(2).teams[Before(2).currentTeam].errors = 0
  /\ \A e \in ErrorRequests(G) :
       /\ e.g.round.status = STOLEN
       /\ e.g.teams[currentTeam].errors = 3

====
